---- MODULE Spec2Model ----
(***************************************************************************)
(* Model of security_monkey/auditors/security_group.py: the security-group *)
(* auditor.  Python strings that the code inspects (CIDRs, protocols,      *)
(* notes) are sequences of one-character strings, so that split('/'),      *)
(* int(), "in" and == are computed as the code computes them.  Tags are    *)
(* opaque constants and stay TLA+ strings.                                 *)
(***************************************************************************)
EXTENDS Integers, Sequences, FiniteSets, TLC

(***************************************************************************)
(* Python string primitives                                                *)
(***************************************************************************)

Digits == <<"0", "1", "2", "3", "4", "5", "6", "7", "8", "9">>

DigitChars == {Digits[i] : i \in 1..10}

\* value of one decimal digit character
DigitVal(c) == (CHOOSE i \in 1..10 : Digits[i] = c) - 1

\* sep in s, for a one-character separator
Contains(s, sep) == \E i \in 1..Len(s) : s[i] = sep

RECURSIVE SplitFrom(_, _, _, _)
\* s.split(sep): cur is the piece being read, i the next position
SplitFrom(s, sep, i, cur) ==
    IF i > Len(s) THEN <<cur>>
    ELSE IF s[i] = sep THEN <<cur>> \o SplitFrom(s, sep, i + 1, <<>>)
    ELSE SplitFrom(s, sep, i + 1, Append(cur, s[i]))

Split(s, sep) == SplitFrom(s, sep, 1, <<>>)

RECURSIVE DigitsValue(_, _)
\* the number written by a sequence of digit characters, most significant earlier
DigitsValue(s, acc) ==
    IF s = <<>> THEN acc
    ELSE DigitsValue(Tail(s), acc * 10 + DigitVal(Head(s)))

AllDigits(s) == Len(s) > 0 /\ \A i \in 1..Len(s) : s[i] \in DigitChars

\* int(s): an optional sign and at least one digit, ValueError otherwise
ParseInt(s) ==
    IF AllDigits(s) THEN [ok |-> TRUE, val |-> DigitsValue(s, 0)]
    ELSE IF Len(s) > 1 /\ s[1] = "-" /\ AllDigits(Tail(s))
        THEN [ok |-> TRUE, val |-> 0 - DigitsValue(Tail(s), 0)]
    ELSE IF Len(s) > 1 /\ s[1] = "+" /\ AllDigits(Tail(s))
        THEN [ok |-> TRUE, val |-> DigitsValue(Tail(s), 0)]
    ELSE [ok |-> FALSE, val |-> 0]

RECURSIVE NatToStr(_)
NatToStr(n) ==
    IF n < 10 THEN <<Digits[n + 1]>>
    ELSE Append(NatToStr(n \div 10), Digits[(n % 10) + 1])

\* "{}".format(n) for an integer n
IntToStr(n) == IF n < 0 THEN <<"-">> \o NatToStr(0 - n) ELSE NatToStr(n)

(***************************************************************************)
(* ipaddr (the IPv4 part the auditor uses).  An address is its four octets;*)
(* a parse result carries ok = FALSE where ipaddr raises ValueError.  Only *)
(* the "address/prefix-length" form is modelled: dotted netmasks and IPv6  *)
(* text do not occur in the inputs below.                                  *)
(***************************************************************************)

\* IPv4Network._parse_octet: decimal digits only, at most 255, no leading zero
ParseOctet(s) ==
    IF ~AllDigits(s) \/ Len(s) > 3 THEN [ok |-> FALSE, val |-> 0]
    ELSE IF DigitsValue(s, 0) > 255 \/ (s[1] = "0" /\ Len(s) > 1)
        THEN [ok |-> FALSE, val |-> 0]
    ELSE [ok |-> TRUE, val |-> DigitsValue(s, 0)]

\* IPv4Network._ip_int_from_string: exactly four octets
IpFromString(s) ==
    LET parts == Split(s, ".")
    IN  IF Len(parts) # 4 \/ \E i \in 1..4 : ~ParseOctet(parts[i]).ok
        THEN [ok |-> FALSE, ip |-> <<0, 0, 0, 0>>]
        ELSE [ok |-> TRUE, ip |-> [i \in 1..4 |-> ParseOctet(parts[i]).val]]

\* ipaddr.IPNetwork(cidr), strict=False: host bits may be set
IPNetwork(cidr) ==
    LET addr == Split(cidr, "/")
        bad  == [ok |-> FALSE, ip |-> <<0, 0, 0, 0>>, prefixlen |-> 0]
    IN  IF Len(addr) > 2 THEN bad
        ELSE LET a == IpFromString(addr[1])
             IN  IF ~a.ok THEN bad
                 ELSE IF Len(addr) = 1
                     THEN [ok |-> TRUE, ip |-> a.ip, prefixlen |-> 32]
                 ELSE LET m == ParseInt(addr[2])
                      IN  IF m.ok /\ 0 <= m.val /\ m.val <= 32
                          THEN [ok |-> TRUE, ip |-> a.ip, prefixlen |-> m.val]
                          ELSE bad

Pow2(n) == 2 ^ n

\* host bits of octet i under a prefix length: 8 minus the prefix bits in it
HostBits(prefixlen, i) ==
    LET k == prefixlen - 8 * (i - 1)
    IN  IF k <= 0 THEN 8 ELSE IF k >= 8 THEN 0 ELSE 8 - k

\* net.network: the address with the host bits cleared
NetworkAddr(net) ==
    [i \in 1..4 |-> net.ip[i] - (net.ip[i] % Pow2(HostBits(net.prefixlen, i)))]

\* net.broadcast: the address with the host bits set
BroadcastAddr(net) ==
    [i \in 1..4 |-> NetworkAddr(net)[i] + Pow2(HostBits(net.prefixlen, i)) - 1]

\* a <= b on addresses, most significant octet earlier
AddrLeq(a, b) ==
    \/ a = b
    \/ \E i \in 1..4 : a[i] < b[i] /\ \A j \in 1..(i - 1) : a[j] = b[j]

\* inner in outer: _BaseNet.__contains__ for two networks
NetIn(inner, outer) ==
    /\ AddrLeq(NetworkAddr(outer), NetworkAddr(inner))
    /\ AddrLeq(BroadcastAddr(inner), BroadcastAddr(outer))

(***************************************************************************)
(* Python dictionaries: a dict is a function on the keys it holds.         *)
(***************************************************************************)

Has(d, k) == k \in DOMAIN d

\* truth value of d.get(k, None) for a string or list value
Truthy(d, k) == Has(d, k) /\ d[k] # <<>>

(***************************************************************************)
(* Constants of the auditor                                                *)
(***************************************************************************)

INSTANCE_DETAIL == "SECURITYGROUP_INSTANCE_DETAIL"

ANY_CIDR == <<"0", ".", "0", ".", "0", ".", "0", "/", "0">>

TEN_NET == <<"1", "0", ".", "0", ".", "0", ".", "0", "/", "8">>

NET_172_16 == <<"1", "7", "2", ".", "1", "6", ".", "0", ".", "0", "/", "1", "2">>

NET_192_168 == <<"1", "9", "2", ".", "1", "6", "8", ".", "0", ".", "0", "/", "1", "6">>

TAG_RFC1918 == "Non-VPC Security Group contains private RFC-1918 CIDR"

TAG_RULE_COUNT == "Security Group contains 50 or more rules"

TAG_PORTS_2500 == "Port Range > 2500 Ports"

TAG_PORTS_750 == "Port Range > 750 Ports"

TAG_PORTS_250 == "Port Range > 250 Ports"

TAG_LARGE_SUBNET == "Security Group network larger than /24"

TAG_ZERO_SUBNET == "Security Group subnet mask is /0"

TAG_ANY == "Security Group contains 0.0.0.0/0"

TAG_INGRESS_ANY == "Security Group ingress rule contains 0.0.0.0/0"

TAG_EGRESS_ANY == "Security Group egress rule contains 0.0.0.0/0"

TAG_10NET == "Security Group contains 10.0.0.0/8"

RuleCountThreshold == 50

\* notes=None
NoNotes == <<>>

\* " on " of the notes format
ON == <<" ", "o", "n", " ">>

UNKNOWN == <<"U", "n", "k", "n", "o", "w", "n">>

(***************************************************************************)
(* Results of a call: what it returned or appended, and whether it raised. *)
(***************************************************************************)

\* self.add_issue(score, issue, item, notes): the finding handed to the sink
add_issue(score, issue, notes) == [score |-> score, issue |-> issue, notes |-> notes]

Returned(v) == [raised |-> FALSE, val |-> v]

Raised == [raised |-> TRUE, val |-> FALSE]

\* outcome of one loop body or one check: the findings added, and an exception
Added(issues) == [issues |-> issues, raised |-> FALSE]

Threw == [issues |-> <<>>, raised |-> TRUE]

RECURSIVE ForEachRule(_, _, _)
\* for rule in rules: Body(rule); an exception ends the loop, the findings
\* already added stay added
ForEachRule(Body(_), rules, i) ==
    IF i > Len(rules) THEN Added(<<>>)
    ELSE LET r == Body(rules[i])
         IN  IF r.raised THEN [issues |-> r.issues, raised |-> TRUE]
             ELSE LET rest == ForEachRule(Body, rules, i + 1)
                  IN  [issues |-> r.issues \o rest.issues, raised |-> rest.raised]

\* sg_item.config.get("rules", [])
RulesOf(sg_item) == IF Has(sg_item, "rules") THEN sg_item["rules"] ELSE <<>>

(***************************************************************************)
(* Module-level helpers                                                    *)
(***************************************************************************)


\* mutant: only 'FULL' is taken for a suppressing mode
_check_empty_security_group_full_only(config, sg_item) ==
    IF /\ Has(config, INSTANCE_DETAIL)
       /\ config[INSTANCE_DETAIL] = "FULL"
       /\ ~Truthy(sg_item, "assigned_to")
    THEN 0
    ELSE 1

_check_empty_security_group(config, sg_item) ==
    IF /\ Has(config, INSTANCE_DETAIL)
       /\ config[INSTANCE_DETAIL] \in {"SUMMARY", "FULL"}
       /\ ~Truthy(sg_item, "assigned_to")
    THEN 0
    ELSE 1

_check_rfc_1918(cidr) ==
    LET net == IPNetwork(cidr)
    IN  IF ~net.ok THEN Raised
        ELSE IF NetIn(net, IPNetwork(TEN_NET)) THEN Returned(TRUE)
        ELSE IF NetIn(net, IPNetwork(NET_172_16)) THEN Returned(TRUE)
        ELSE IF NetIn(net, IPNetwork(NET_192_168)) THEN Returned(TRUE)
        ELSE Returned(FALSE)

(***************************************************************************)
(* SecurityGroupAuditor.  self is the auditor's network_whitelist, a       *)
(* sequence of entries [cidr |-> text].                                    *)
(***************************************************************************)


\* mutant: the fetched rows are added to the list instead of replacing it
prep_for_audit_extending(self, query_all) == self \o query_all

prep_for_audit(self, query_all) == query_all

RECURSIVE InclusionFrom(_, _, _)
InclusionFrom(self, cidr, i) ==
    IF i > Len(self) THEN Returned(FALSE)
    ELSE LET inner == IPNetwork(cidr)
             outer == IPNetwork(self[i].cidr)
         IN  IF ~inner.ok \/ ~outer.ok THEN Raised
             ELSE IF NetIn(inner, outer) THEN Returned(TRUE)
             ELSE InclusionFrom(self, cidr, i + 1)


\* mutant: the loop returns after the first entry
_check_inclusion_in_first_entry(self, cidr) ==
    IF Len(self) = 0 THEN Returned(FALSE)
    ELSE LET inner == IPNetwork(cidr)
             outer == IPNetwork(self[1].cidr)
         IN  IF ~inner.ok \/ ~outer.ok THEN Raised
             ELSE Returned(NetIn(inner, outer))

_check_inclusion_in_network_whitelist(self, cidr) == InclusionFrom(self, cidr, 1)

__port_for_rule__(rule) ==
    IF rule["from_port"] = rule["to_port"]
    THEN rule["ip_protocol"] \o <<" ">> \o IntToStr(rule["from_port"])
    ELSE rule["ip_protocol"] \o <<" ">> \o IntToStr(rule["from_port"])
             \o <<"-">> \o IntToStr(rule["to_port"])

\* "{} on {}".format(name, self.__port_for_rule__(rule))
NotesFor(name, rule) == name \o ON \o __port_for_rule__(rule)


\* mutant: the check returns early for an item whose severities are suppressed
check_securitygroup_ec2_rfc1918_skips_suppressed(self, config, sg_item) ==
    IF Truthy(sg_item, "vpc_id") \/ _check_empty_security_group(config, sg_item) = 0
    THEN Added(<<>>)
    ELSE LET Body(rule) ==
                 IF ~Truthy(rule, "cidr_ip") THEN Added(<<>>)
                 ELSE LET private == _check_rfc_1918(rule["cidr_ip"])
                      IN  IF private.raised THEN Threw
                          ELSE IF private.val
                              THEN Added(<<add_issue(5, TAG_RFC1918, rule["cidr_ip"])>>)
                          ELSE Added(<<>>)
         IN  ForEachRule(Body, RulesOf(sg_item), 1)

check_securitygroup_ec2_rfc1918(self, config, sg_item) ==
    IF Truthy(sg_item, "vpc_id") THEN Added(<<>>)
    ELSE LET multiplier == _check_empty_security_group(config, sg_item)
             Body(rule) ==
                 IF ~Truthy(rule, "cidr_ip") THEN Added(<<>>)
                 ELSE LET private == _check_rfc_1918(rule["cidr_ip"])
                      IN  IF private.raised THEN Threw
                          ELSE IF private.val
                              THEN Added(<<add_issue(5 * multiplier, TAG_RFC1918,
                                                     rule["cidr_ip"])>>)
                          ELSE Added(<<>>)
         IN  ForEachRule(Body, RulesOf(sg_item), 1)

check_securitygroup_rule_count(self, config, sg_item) ==
    LET multiplier == _check_empty_security_group(config, sg_item)
    IN  IF Len(RulesOf(sg_item)) >= RuleCountThreshold
        THEN Added(<<add_issue(1 * multiplier, TAG_RULE_COUNT, NoNotes)>>)
        ELSE Added(<<>>)


\* mutant: the thresholds are compared with >=
check_securitygroup_large_port_range_inclusive(self, config, sg_item) ==
    LET multiplier == _check_empty_security_group(config, sg_item)
        Body(rule) ==
            IF rule["from_port"] = rule["to_port"] THEN Added(<<>>)
            ELSE LET range_size == rule["to_port"] - rule["from_port"]
                     name == IF Truthy(rule, "cidr_ip") THEN rule["cidr_ip"]
                             ELSE IF Has(rule, "name") THEN rule["name"]
                             ELSE UNKNOWN
                     note == NotesFor(name, rule)
                 IN  IF range_size >= 2500
                         THEN Added(<<add_issue(4 * multiplier, TAG_PORTS_2500, note)>>)
                     ELSE IF range_size >= 750
                         THEN Added(<<add_issue(3 * multiplier, TAG_PORTS_750, note)>>)
                     ELSE IF range_size >= 250
                         THEN Added(<<add_issue(1 * multiplier, TAG_PORTS_250, note)>>)
                     ELSE Added(<<>>)
    IN  ForEachRule(Body, RulesOf(sg_item), 1)

check_securitygroup_large_port_range(self, config, sg_item) ==
    LET multiplier == _check_empty_security_group(config, sg_item)
        Body(rule) ==
            IF rule["from_port"] = rule["to_port"] THEN Added(<<>>)
            ELSE LET range_size == rule["to_port"] - rule["from_port"]
                     name == IF Truthy(rule, "cidr_ip") THEN rule["cidr_ip"]
                             ELSE IF Has(rule, "name") THEN rule["name"]
                             ELSE UNKNOWN
                     note == NotesFor(name, rule)
                 IN  IF range_size > 2500
                         THEN Added(<<add_issue(4 * multiplier, TAG_PORTS_2500, note)>>)
                     ELSE IF range_size > 750
                         THEN Added(<<add_issue(3 * multiplier, TAG_PORTS_750, note)>>)
                     ELSE IF range_size > 250
                         THEN Added(<<add_issue(1 * multiplier, TAG_PORTS_250, note)>>)
                     ELSE Added(<<>>)
    IN  ForEachRule(Body, RulesOf(sg_item), 1)

\* int(cidr.split('/')[1])
MaskOf(cidr) == ParseInt(Split(cidr, "/")[2])

\* '/' in cidr and not cidr == "0.0.0.0/0" and not cidr == "10.0.0.0/8"
HasOtherMask(cidr) == Contains(cidr, "/") /\ cidr # ANY_CIDR /\ cidr # TEN_NET

check_securitygroup_large_subnet(self, config, sg_item) ==
    LET multiplier == _check_empty_security_group(config, sg_item)
        Body(rule) ==
            IF ~Truthy(rule, "cidr_ip") THEN Added(<<>>)
            ELSE LET cidr == rule["cidr_ip"]
                     listed == _check_inclusion_in_network_whitelist(self, cidr)
                 IN  IF listed.raised THEN Threw
                     ELSE IF listed.val \/ ~HasOtherMask(cidr) THEN Added(<<>>)
                     ELSE IF ~MaskOf(cidr).ok THEN Threw
                     ELSE IF MaskOf(cidr).val < 24 /\ MaskOf(cidr).val > 0
                         THEN Added(<<add_issue(3 * multiplier, TAG_LARGE_SUBNET,
                                                NotesFor(cidr, rule))>>)
                     ELSE Added(<<>>)
    IN  ForEachRule(Body, RulesOf(sg_item), 1)

check_securitygroup_zero_subnet(self, config, sg_item) ==
    LET multiplier == _check_empty_security_group(config, sg_item)
        Body(rule) ==
            IF ~Truthy(rule, "cidr_ip") THEN Added(<<>>)
            ELSE LET cidr == rule["cidr_ip"]
                 IN  IF ~HasOtherMask(cidr) THEN Added(<<>>)
                     ELSE IF ~MaskOf(cidr).ok THEN Threw
                     ELSE IF MaskOf(cidr).val = 0
                         THEN Added(<<add_issue(10 * multiplier, TAG_ZERO_SUBNET,
                                                NotesFor(cidr, rule))>>)
                     ELSE Added(<<>>)
    IN  ForEachRule(Body, RulesOf(sg_item), 1)


\* the sequence back to front
Reverse(seq) == [i \in 1..Len(seq) |-> seq[Len(seq) + 1 - i]]

\* mutant: the rules are visited last to earlier
check_securitygroup_any_reversed(self, config, sg_item) ==
    LET multiplier == _check_empty_security_group(config, sg_item)
        Body(rule) ==
            IF Has(rule, "cidr_ip") /\ rule["cidr_ip"] = ANY_CIDR
            THEN Added(<<add_issue(5 * multiplier, TAG_ANY,
                                   NotesFor(rule["cidr_ip"], rule))>>)
            ELSE Added(<<>>)
    IN  ForEachRule(Body, Reverse(RulesOf(sg_item)), 1)

check_securitygroup_any(self, config, sg_item) ==
    LET multiplier == _check_empty_security_group(config, sg_item)
        Body(rule) ==
            IF Has(rule, "cidr_ip") /\ rule["cidr_ip"] = ANY_CIDR
            THEN Added(<<add_issue(5 * multiplier, TAG_ANY,
                                   NotesFor(rule["cidr_ip"], rule))>>)
            ELSE Added(<<>>)
    IN  ForEachRule(Body, RulesOf(sg_item), 1)


\* mutant: the rule type is not looked at
check_securitygroup_ingress_any_of_any_type(self, config, sg_item) ==
    LET multiplier == _check_empty_security_group(config, sg_item)
        Body(rule) ==
            IF Has(rule, "cidr_ip") /\ rule["cidr_ip"] = ANY_CIDR
            THEN Added(<<add_issue(10 * multiplier, TAG_INGRESS_ANY,
                                   NotesFor(rule["cidr_ip"], rule))>>)
            ELSE Added(<<>>)
    IN  ForEachRule(Body, RulesOf(sg_item), 1)

check_securitygroup_ingress_any(self, config, sg_item) ==
    LET multiplier == _check_empty_security_group(config, sg_item)
        Body(rule) ==
            IF /\ Has(rule, "cidr_ip") /\ rule["cidr_ip"] = ANY_CIDR
               /\ Has(rule, "rule_type") /\ rule["rule_type"] = "ingress"
            THEN Added(<<add_issue(10 * multiplier, TAG_INGRESS_ANY,
                                   NotesFor(rule["cidr_ip"], rule))>>)
            ELSE Added(<<>>)
    IN  ForEachRule(Body, RulesOf(sg_item), 1)

check_securitygroup_egress_any(self, config, sg_item) ==
    LET multiplier == _check_empty_security_group(config, sg_item)
        Body(rule) ==
            IF /\ Has(rule, "cidr_ip") /\ rule["cidr_ip"] = ANY_CIDR
               /\ Has(rule, "rule_type") /\ rule["rule_type"] = "egress"
            THEN Added(<<add_issue(5 * multiplier, TAG_EGRESS_ANY,
                                   NotesFor(rule["cidr_ip"], rule))>>)
            ELSE Added(<<>>)
    IN  ForEachRule(Body, RulesOf(sg_item), 1)


\* mutant: the VPC exemption is missing
check_securitygroup_10net_in_vpc_too(self, config, sg_item) ==
    LET multiplier == _check_empty_security_group(config, sg_item)
        Body(rule) ==
            IF Has(rule, "cidr_ip") /\ rule["cidr_ip"] = TEN_NET
            THEN Added(<<add_issue(5 * multiplier, TAG_10NET,
                                   NotesFor(rule["cidr_ip"], rule))>>)
            ELSE Added(<<>>)
    IN  ForEachRule(Body, RulesOf(sg_item), 1)

check_securitygroup_10net(self, config, sg_item) ==
    IF Truthy(sg_item, "vpc_id") THEN Added(<<>>)
    ELSE LET multiplier == _check_empty_security_group(config, sg_item)
             Body(rule) ==
                 IF Has(rule, "cidr_ip") /\ rule["cidr_ip"] = TEN_NET
                 THEN Added(<<add_issue(5 * multiplier, TAG_10NET,
                                        NotesFor(rule["cidr_ip"], rule))>>)
                 ELSE Added(<<>>)
         IN  ForEachRule(Body, RulesOf(sg_item), 1)

(***************************************************************************)
(* Inputs: configurations, whitelists, rules and items                     *)
(***************************************************************************)

\* rules per item (main specification)
MaxRules == 2

\* rules per item where only the port range varies
MaxPortRules == 2

\* entries per whitelist where the inclusion test is called directly
MaxWhitelist == 2

\* app.config without the key
NoConfig == [k \in {} |-> "NONE"]

ConfigOf(mode) == [k \in {INSTANCE_DETAIL} |-> mode]

\* the configurations an audit batch runs under
Configs == {ConfigOf("NONE"), ConfigOf("SUMMARY"), ConfigOf("FULL")}

\* every shape of the setting: absent, the three documented values, another
AllConfigs == Configs \cup {NoConfig, ConfigOf("DETAILED")}

TCP == <<"t", "c", "p">>

PEER == <<"s", "g", "-", "1">>

VPC_ID == <<"v", "p", "c", "-", "1">>

ATTACHED_ID == <<"i", "-", "1">>

PRIVATE_12 == NET_172_16

PUBLIC_16 == <<"8", ".", "8", ".", "0", ".", "0", "/", "1", "6">>

ZERO_MASK == <<"1", ".", "0", ".", "0", ".", "0", "/", "0">>

\* malformed: mask length out of range (int() accepts it, ipaddr does not)
BAD_MASK == <<"1", "0", ".", "0", ".", "0", ".", "0", "/", "3", "3">>

\* malformed: the mask is not a number
BAD_TEXT == <<"8", ".", "8", ".", "0", ".", "0", "/", "x">>

CidrRule(cidr, from, to, rtype) ==
    [ip_protocol |-> TCP, from_port |-> from, to_port |-> to,
     cidr_ip |-> cidr, rule_type |-> rtype]

\* a rule that names a peer group instead of a CIDR
PeerRule(from, to, rtype) ==
    [ip_protocol |-> TCP, from_port |-> from, to_port |-> to,
     name |-> PEER, rule_type |-> rtype]

Rules ==
    { CidrRule(ANY_CIDR, 22, 22, "ingress"),
      CidrRule(ANY_CIDR, 443, 3000, "egress"),
      CidrRule(TEN_NET, 22, 22, "ingress"),
      CidrRule(PRIVATE_12, 22, 22, "egress"),
      CidrRule(PUBLIC_16, 443, 1200, "ingress"),
      CidrRule(ZERO_MASK, 22, 22, "ingress"),
      CidrRule(BAD_MASK, 22, 22, "ingress"),
      CidrRule(BAD_TEXT, 22, 22, "ingress"),
      PeerRule(443, 700, "ingress") }

\* all sequences over S of length at most n
SeqsUpTo(S, n) == UNION {[1..k -> S] : k \in 0..n}

\* sg_item.config: vpc_id and assigned_to are optional keys.  assigned is
\* "absent" (no key), "empty" ([]) or "one" (one attached instance)
ItemOf(vpc, assigned, rules) ==
    [k \in {"rules"} \cup (IF vpc THEN {"vpc_id"} ELSE {})
                     \cup (IF assigned = "absent" THEN {} ELSE {"assigned_to"}) |->
        IF k = "rules" THEN rules
        ELSE IF k = "vpc_id" THEN VPC_ID
        ELSE IF assigned = "one" THEN <<ATTACHED_ID>>
        ELSE <<>>]

ItemsOver(ruleSeqs, assignedShapes) ==
    { ItemOf(vpc, assigned, rules) :
        vpc \in BOOLEAN, assigned \in assignedShapes, rules \in ruleSeqs }

Items == ItemsOver(SeqsUpTo(Rules, MaxRules), {"empty", "one"})

WL_TEN == [cidr |-> TEN_NET]

WL_PUBLIC == [cidr |-> PUBLIC_16]

Whitelists == {<<>>, <<WL_TEN, WL_PUBLIC>>}

(***************************************************************************)
(* State                                                                   *)
(***************************************************************************)

VARIABLES
    config,             \* app.config
    network_whitelist,  \* SecurityGroupAuditor.network_whitelist
    batch_whitelist,    \* the rows NetworkWhitelistEntry.query.all() last returned
    sg_item,            \* config of the item being audited
    audit_issues,       \* the findings added to the item, in order
    raised,             \* the checks that ended with an exception
    pc,                 \* position of the audit
    probe,              \* argument of a direct call of a helper
    retval,             \* what a direct call returned
    earlier               \* history: an audit completed earlier, with its input

vars == <<config, network_whitelist, batch_whitelist, sg_item, audit_issues,
          raised, pc, probe, retval, earlier>>

\* no audit completed yet
NoAudit == [k \in {} |-> <<>>]

\* no item yet: an empty dict
NoItem == [k \in {} |-> <<>>]

\* the checks in the order the catalog declares them
Catalog ==
    <<"ec2_rfc1918", "rule_count", "large_port_range", "large_subnet",
      "zero_subnet", "any", "ingress_any", "egress_any", "10net">>

CatalogIndex(name) == CHOOSE i \in 1..Len(Catalog) : Catalog[i] = name

\* where the audit goes after a check
After(name) ==
    IF CatalogIndex(name) = Len(Catalog) THEN "done"
    ELSE Catalog[CatalogIndex(name) + 1]

\* network_whitelist = [] until prep_for_audit runs
InitWith(configs) ==
    /\ config \in configs
    /\ network_whitelist = <<>>
    /\ batch_whitelist = <<>>
    /\ sg_item = NoItem
    /\ audit_issues = <<>>
    /\ raised = {}
    /\ pc = "new"
    /\ probe = <<>>
    /\ retval = <<>>
    /\ earlier = NoAudit

Init == InitWith(Configs)

\* start of a batch: the whitelist is fetched once
PrepForAudit ==
    /\ pc \in {"new", "idle", "done"}
    /\ \E rows \in Whitelists :
        /\ network_whitelist' = prep_for_audit(network_whitelist, rows)
        /\ batch_whitelist' = rows
    /\ sg_item' = NoItem
    /\ audit_issues' = <<>>
    /\ raised' = {}
    /\ pc' = "idle"
    /\ UNCHANGED <<config, probe, retval, earlier>>

\* the engine takes the next item of the batch; its findings start empty
StartAudit(items) ==
    /\ pc = "idle"
    /\ \E item \in items : sg_item' = item
    /\ audit_issues' = <<>>
    /\ raised' = {}
    /\ pc' = Catalog[1]
    /\ UNCHANGED <<config, network_whitelist, batch_whitelist, probe, retval, earlier>>

\* the engine runs one check method: its findings are appended; an exception
\* is recorded and the audit goes on with the next check
RunCheck(name, result) ==
    /\ pc = name
    /\ audit_issues' = audit_issues \o result.issues
    /\ raised' = IF result.raised THEN raised \cup {name} ELSE raised
    /\ pc' = After(name)
    /\ UNCHANGED <<config, network_whitelist, batch_whitelist, sg_item, probe, retval,
                   earlier>>

RunEc2Rfc1918 ==
    RunCheck("ec2_rfc1918",
             check_securitygroup_ec2_rfc1918(network_whitelist, config, sg_item))

RunRuleCount ==
    RunCheck("rule_count",
             check_securitygroup_rule_count(network_whitelist, config, sg_item))

RunLargePortRange ==
    RunCheck("large_port_range",
             check_securitygroup_large_port_range(network_whitelist, config, sg_item))

RunLargeSubnet ==
    RunCheck("large_subnet",
             check_securitygroup_large_subnet(network_whitelist, config, sg_item))

RunZeroSubnet ==
    RunCheck("zero_subnet",
             check_securitygroup_zero_subnet(network_whitelist, config, sg_item))

RunAny ==
    RunCheck("any", check_securitygroup_any(network_whitelist, config, sg_item))

RunIngressAny ==
    RunCheck("ingress_any",
             check_securitygroup_ingress_any(network_whitelist, config, sg_item))

RunEgressAny ==
    RunCheck("egress_any",
             check_securitygroup_egress_any(network_whitelist, config, sg_item))

RunTenNet ==
    RunCheck("10net", check_securitygroup_10net(network_whitelist, config, sg_item))

\* the findings of the item go to the sink; the engine is ready for the next
EndOfAudit ==
    /\ pc = "done"
    /\ sg_item' = NoItem
    /\ audit_issues' = <<>>
    /\ raised' = {}
    /\ pc' = "idle"
    /\ UNCHANGED <<config, network_whitelist, batch_whitelist, probe, retval>>

FinishAudit == EndOfAudit /\ UNCHANGED earlier

Checks ==
    \/ RunEc2Rfc1918
    \/ RunRuleCount
    \/ RunLargePortRange
    \/ RunLargeSubnet
    \/ RunZeroSubnet
    \/ RunAny
    \/ RunIngressAny
    \/ RunEgressAny
    \/ RunTenNet

Next ==
    \/ PrepForAudit
    \/ StartAudit(Items)
    \/ Checks
    \/ FinishAudit

Spec == Init /\ [][Next]_vars

(***************************************************************************)
(* The audit of one item as a function of its inputs: the findings of the  *)
(* first k checks of the catalog, and the checks among them that raised.   *)
(***************************************************************************)

CheckResult(name, self, cfg, item) ==
    CASE name = "ec2_rfc1918" -> check_securitygroup_ec2_rfc1918(self, cfg, item)
      [] name = "rule_count" -> check_securitygroup_rule_count(self, cfg, item)
      [] name = "large_port_range" -> check_securitygroup_large_port_range(self, cfg, item)
      [] name = "large_subnet" -> check_securitygroup_large_subnet(self, cfg, item)
      [] name = "zero_subnet" -> check_securitygroup_zero_subnet(self, cfg, item)
      [] name = "any" -> check_securitygroup_any(self, cfg, item)
      [] name = "ingress_any" -> check_securitygroup_ingress_any(self, cfg, item)
      [] name = "egress_any" -> check_securitygroup_egress_any(self, cfg, item)
      [] name = "10net" -> check_securitygroup_10net(self, cfg, item)

RECURSIVE AuditPrefix(_, _, _, _)
AuditPrefix(self, cfg, item, k) ==
    IF k = 0 THEN [issues |-> <<>>, raised |-> {}]
    ELSE LET before == AuditPrefix(self, cfg, item, k - 1)
             r == CheckResult(Catalog[k], self, cfg, item)
         IN  [issues |-> before.issues \o r.issues,
              raised |-> IF r.raised THEN before.raised \cup {Catalog[k]}
                         ELSE before.raised]

AuditOf(self, cfg, item) == AuditPrefix(self, cfg, item, Len(Catalog))

\* the findings of a sequence that carry one of the tags
Tagged(issues, tags) == SelectSeq(issues, LAMBDA f : f.issue \in tags)

\* the item has no attached consumer
Unattached(item) == ~Has(item, "assigned_to") \/ item["assigned_to"] = <<>>

\* the reporting mode is one that suppresses severities
Suppressing(cfg) == Has(cfg, INSTANCE_DETAIL) /\ cfg[INSTANCE_DETAIL] \in {"SUMMARY", "FULL"}

(***************************************************************************)
(* Vocabulary of the properties                                            *)
(***************************************************************************)

AllTags ==
    {TAG_RFC1918, TAG_RULE_COUNT, TAG_PORTS_2500, TAG_PORTS_750, TAG_PORTS_250,
     TAG_LARGE_SUBNET, TAG_ZERO_SUBNET, TAG_ANY, TAG_INGRESS_ANY, TAG_EGRESS_ANY,
     TAG_10NET}

\* the two checks that apply only to items without a VPC id
VpcTags == {TAG_RFC1918, TAG_10NET}

\* position in the catalog of the check that writes a tag
CheckOfTag(tag) ==
    CASE tag = TAG_RFC1918 -> 1
      [] tag = TAG_RULE_COUNT -> 2
      [] tag \in {TAG_PORTS_2500, TAG_PORTS_750, TAG_PORTS_250} -> 3
      [] tag = TAG_LARGE_SUBNET -> 4
      [] tag = TAG_ZERO_SUBNET -> 5
      [] tag = TAG_ANY -> 6
      [] tag = TAG_INGRESS_ANY -> 7
      [] tag = TAG_EGRESS_ANY -> 8
      [] tag = TAG_10NET -> 9

StartsWith(s, prefix) ==
    Len(s) >= Len(prefix) /\ SubSeq(s, 1, Len(prefix)) = prefix

HasCidr(rule) == Has(rule, "cidr_ip") /\ rule["cidr_ip"] # <<>>

IsAnyRule(rule) == Has(rule, "cidr_ip") /\ rule["cidr_ip"] = ANY_CIDR

IsAnyIngress(rule) == IsAnyRule(rule) /\ rule["rule_type"] = "ingress"

IsAnyEgress(rule) == IsAnyRule(rule) /\ rule["rule_type"] = "egress"

\* the rule's CIDR is absent or parses
WellFormed(rule) == ~HasCidr(rule) \/ IPNetwork(rule["cidr_ip"]).ok

\* the item without the rules whose CIDR is malformed
SkipMalformed(item) == [item EXCEPT !["rules"] = SelectSeq(@, WellFormed)]

\* the item as a classic (non-VPC) group
WithoutVpc(item) == [k \in DOMAIN item \ {"vpc_id"} |-> item[k]]

\* the notes of a sequence of findings
NotesOf(issues) == [i \in 1..Len(issues) |-> issues[i].notes]

\* what a rule is called in the notes: its CIDR, its peer, or "Unknown"
NameOf(rule) ==
    IF HasCidr(rule) THEN rule["cidr_ip"]
    ELSE IF Has(rule, "name") THEN rule["name"]
    ELSE UNKNOWN

RECURSIVE IsSubsequence(_, _)
\* a is b with some elements left out
IsSubsequence(a, b) ==
    IF a = <<>> THEN TRUE
    ELSE IF b = <<>> THEN FALSE
    ELSE IF Head(a) = Head(b) THEN IsSubsequence(Tail(a), Tail(b))
    ELSE IsSubsequence(a, Tail(b))

RECURSIVE SkippingPrefix(_, _, _, _)
\* the audit in which the checks that read the CIDR pass over malformed rules
SkippingPrefix(self, cfg, item, k) ==
    IF k = 0 THEN <<>>
    ELSE SkippingPrefix(self, cfg, item, k - 1) \o
         CheckResult(Catalog[k], self, cfg,
                     IF Catalog[k] \in {"rule_count", "large_port_range"}
                     THEN item ELSE SkipMalformed(item)).issues

(***************************************************************************)
(* Properties of the audit of one item (specification Spec)                *)
(***************************************************************************)

\* C2: severity suppression never hides a finding.  The audit of an unattached
\* item under SUMMARY or FULL holds as many findings, with the same tags and
\* notes in the same order, as its audit under NONE; every severity is 0.
C2_SuppressionKeepsFindings ==
    (pc = "done" /\ Suppressing(config) /\ Unattached(sg_item)) =>
        LET ref == AuditOf(network_whitelist, ConfigOf("NONE"), sg_item).issues
        IN  /\ Len(audit_issues) = Len(ref)
            /\ \A i \in 1..Len(ref) :
                /\ audit_issues[i].issue = ref[i].issue
                /\ audit_issues[i].notes = ref[i].notes
                /\ audit_issues[i].score = 0
                /\ ref[i].score > 0

C2_Witness ==
    /\ pc = "done" /\ config = ConfigOf("FULL") /\ Unattached(sg_item)
    /\ Len(audit_issues) >= 3
    /\ \E i, j \in 1..Len(audit_issues) : audit_issues[i].issue # audit_issues[j].issue

\* C3: a malformed CIDR on a rule never aborts the audit of the item.  No
\* check raises; the checks that read the CIDR pass over the rule, and the
\* findings are those of the item's other rules.
C3_MalformedCidrNeverAborts ==
    pc = "done" =>
        /\ raised = {}
        /\ audit_issues =
               SkippingPrefix(network_whitelist, config, sg_item, Len(Catalog))

\* C6: every rule whose CIDR is exactly "0.0.0.0/0" yields an AnyIPv4 finding,
\* an AnyIPv4Ingress finding iff it is an ingress rule and an AnyIPv4Egress
\* finding iff it is an egress rule, and no finding of the subnet, RFC-1918 or
\* 10-net checks.  An attached item under NONE whose only rule is a
\* single-port ingress rule on "0.0.0.0/0" yields AnyIPv4 with severity 5 and
\* AnyIPv4Ingress with severity 10, and nothing else.
C6_AnyIPv4Findings ==
    pc = "done" =>
        LET rules == RulesOf(sg_item)
            anyRules == SelectSeq(rules, IsAnyRule)
            NotesOfRules(rs) == [i \in 1..Len(rs) |-> NotesFor(ANY_CIDR, rs[i])]
        IN  /\ NotesOf(Tagged(audit_issues, {TAG_ANY})) = NotesOfRules(anyRules)
            /\ NotesOf(Tagged(audit_issues, {TAG_INGRESS_ANY}))
                   = NotesOfRules(SelectSeq(rules, IsAnyIngress))
            /\ NotesOf(Tagged(audit_issues, {TAG_EGRESS_ANY}))
                   = NotesOfRules(SelectSeq(rules, IsAnyEgress))
            /\ \A i \in 1..Len(audit_issues) :
                   audit_issues[i].issue \in
                       {TAG_LARGE_SUBNET, TAG_ZERO_SUBNET, TAG_RFC1918, TAG_10NET}
                   => ~StartsWith(audit_issues[i].notes, ANY_CIDR)
            /\ ( /\ config = ConfigOf("NONE")
                 /\ ~Unattached(sg_item)
                 /\ Len(rules) = 1
                 /\ IsAnyIngress(rules[1])
                 /\ rules[1]["from_port"] = rules[1]["to_port"] )
               => /\ Len(audit_issues) = 2
                  /\ audit_issues[1].issue = TAG_ANY
                  /\ audit_issues[1].score = 5
                  /\ audit_issues[2].issue = TAG_INGRESS_ANY
                  /\ audit_issues[2].score = 10

C6_Witness ==
    /\ pc = "done"
    /\ config = ConfigOf("NONE")
    /\ ~Unattached(sg_item)
    /\ RulesOf(sg_item) = <<CidrRule(ANY_CIDR, 22, 22, "ingress")>>
    /\ Len(audit_issues) = 2

\* C7: an item with a VPC id yields no PrivateRangeInPublicContext and no
\* Contains10Net finding; the findings and the exceptions of the other seven
\* checks are those of the same item without the VPC id.
C7_VpcExemption ==
    (pc = "done" /\ Truthy(sg_item, "vpc_id")) =>
        LET classic == AuditOf(network_whitelist, config, WithoutVpc(sg_item))
        IN  /\ Tagged(audit_issues, VpcTags) = <<>>
            /\ Tagged(audit_issues, AllTags \ VpcTags)
                   = Tagged(classic.issues, AllTags \ VpcTags)
            /\ raised \ {"ec2_rfc1918", "10net"}
                   = classic.raised \ {"ec2_rfc1918", "10net"}

C7_Witness ==
    /\ pc = "done"
    /\ Truthy(sg_item, "vpc_id")
    /\ RulesOf(sg_item) = <<CidrRule(TEN_NET, 22, 22, "ingress"),
                            CidrRule(PRIVATE_12, 22, 22, "egress")>>
    /\ Tagged(audit_issues, {TAG_LARGE_SUBNET}) # <<>>

\* "10.0.0.0/8 on tcp 22"
TEN_NET_ON_TCP_22 ==
    <<"1", "0", ".", "0", ".", "0", ".", "0", "/", "8", " ", "o", "n", " ",
      "t", "c", "p", " ", "2", "2">>

\* the notes a check writes for a rule
RuleNotes(check, rule) ==
    IF check = 1 THEN NameOf(rule) ELSE NotesFor(NameOf(rule), rule)

C10_MaskPartitionsSubnetChecks ==
    pc = "done" =>
        /\ \A i \in 1..Len(RulesOf(sg_item)) :
            LET rule == RulesOf(sg_item)[i]
                net == IPNetwork(rule["cidr_ip"])
                listed == \E k \in 1..Len(network_whitelist) :
                              NetIn(net, IPNetwork(network_whitelist[k].cidr))
                multiplier == IF Suppressing(config) /\ Unattached(sg_item)
                              THEN 0 ELSE 1
                Fires(tag, base) ==
                    \E k \in 1..Len(audit_issues) :
                        audit_issues[k] = [score |-> base * multiplier, issue |-> tag,
                                           notes |-> NotesFor(rule["cidr_ip"], rule)]
            IN  (HasCidr(rule) /\ rule["cidr_ip"] \notin {ANY_CIDR, TEN_NET} /\ net.ok) =>
                    /\ Fires(TAG_ZERO_SUBNET, 10) <=> net.prefixlen = 0
                    /\ Fires(TAG_LARGE_SUBNET, 3) <=>
                           (0 < net.prefixlen /\ net.prefixlen < 24 /\ ~listed)
        /\ Tagged(audit_issues, AllTags \ {TAG_LARGE_SUBNET})
               = Tagged(AuditOf(<<>>, config, sg_item).issues,
                        AllTags \ {TAG_LARGE_SUBNET})

\* the statement of C10 holds of every item whose CIDRs are all well formed
MaskPartitionOfWellFormedItems ==
    (\A i \in 1..Len(RulesOf(sg_item)) : WellFormed(RulesOf(sg_item)[i]))
        => C10_MaskPartitionsSubnetChecks

(***************************************************************************)
(* Direct calls of one function: the inputs are drawn at the start, the    *)
(* action applies the function to them.                                    *)
(***************************************************************************)

InitCall(configs, whitelists, items, probes) ==
    /\ config \in configs
    /\ network_whitelist \in whitelists
    /\ batch_whitelist = network_whitelist
    /\ sg_item \in items
    /\ audit_issues = <<>>
    /\ raised = {}
    /\ pc = "call"
    /\ probe \in probes
    /\ retval = <<>>
    /\ earlier = NoAudit

\* ---- _check_empty_security_group ----

MultiplierItems == ItemsOver(SeqsUpTo(Rules, 1), {"absent", "empty", "one"})

InitMultiplier == InitCall(AllConfigs, {<<>>}, MultiplierItems, {<<>>})

CallCheckEmptySecurityGroup ==
    /\ pc = "call"
    /\ retval' = _check_empty_security_group(config, sg_item)
    /\ pc' = "return"
    /\ UNCHANGED <<config, network_whitelist, batch_whitelist, sg_item,
                   audit_issues, raised, probe, earlier>>

SpecMultiplier == InitMultiplier /\ [][CallCheckEmptySecurityGroup]_vars

\* C1: the multiplier is 0 exactly when the reporting mode is SUMMARY or FULL
\* and assigned_to is missing or empty; in every other case (no mode, NONE,
\* another value, an item in use) it is 1.
C1_MultiplierIsZeroOrOne ==
    pc = "return" =>
        LET mode == IF INSTANCE_DETAIL \in DOMAIN config
                    THEN config[INSTANCE_DETAIL] ELSE "absent"
            inUse == "assigned_to" \in DOMAIN sg_item /\ Len(sg_item["assigned_to"]) > 0
        IN  /\ retval \in {0, 1}
            /\ retval = 0 <=> ((mode = "SUMMARY" \/ mode = "FULL") /\ ~inUse)
            /\ (mode \in {"absent", "NONE", "DETAILED"} \/ inUse) => retval = 1

C1_Witness ==
    /\ pc = "return"
    /\ retval = 0
    /\ config = ConfigOf("SUMMARY")
    /\ ~Has(sg_item, "assigned_to")

\* ---- check_securitygroup_large_port_range ----

PortPairs ==
    { <<443, 3000>>, <<443, 1200>>, <<443, 700>>, <<443, 600>>, <<443, 443>>,
      <<0, 250>>, <<0, 251>>, <<0, 750>>, <<0, 751>>, <<0, 2500>>, <<0, 2501>>,
      <<1, 251>>, <<3000, 443>>, <<0, 65535>> }

\* a rule that has neither a CIDR nor a peer name
BareRule(from, to, rtype) ==
    [ip_protocol |-> TCP, from_port |-> from, to_port |-> to, rule_type |-> rtype]

PortRules ==
    { CidrRule(PUBLIC_16, p[1], p[2], "ingress") : p \in PortPairs }
        \cup {PeerRule(443, 3000, "egress"), BareRule(0, 751, "ingress")}

PortItems ==
    { ItemOf(FALSE, assigned, rules) :
        assigned \in {"empty", "one"}, rules \in SeqsUpTo(PortRules, MaxPortRules) }

InitPorts == InitCall({ConfigOf("NONE"), ConfigOf("FULL")}, {<<>>}, PortItems, {<<>>})

CallLargePortRange ==
    /\ pc = "call"
    /\ LET r == check_securitygroup_large_port_range(network_whitelist, config, sg_item)
       IN  /\ audit_issues' = r.issues
           /\ raised' = IF r.raised THEN {"large_port_range"} ELSE {}
    /\ pc' = "return"
    /\ UNCHANGED <<config, network_whitelist, batch_whitelist, sg_item, probe,
                   retval, earlier>>

SpecPorts == InitPorts /\ [][CallLargePortRange]_vars

\* to_port - from_port
SizeOf(rule) == rule["to_port"] - rule["from_port"]

\* the base severity of a port span, 0 for no finding
BucketSeverity(size) ==
    CASE size > 2500 -> 4
      [] 750 < size /\ size <= 2500 -> 3
      [] 250 < size /\ size <= 750 -> 1
      [] OTHER -> 0

BucketTag(size) ==
    CASE size > 2500 -> TAG_PORTS_2500
      [] 750 < size /\ size <= 2500 -> TAG_PORTS_750
      [] OTHER -> TAG_PORTS_250

InBucket(rule) == BucketSeverity(SizeOf(rule)) > 0

\* C4: the large-port-range check emits at most one finding per rule, in rule
\* order: severity 4 iff size > 2500, 3 iff 750 < size <= 2500, 1 iff
\* 250 < size <= 750, none otherwise (equal ports, sizes up to 250, negative
\* sizes), and it never raises.  (443,3000) yields 4, (443,1200) 3,
\* (443,700) 1 and (443,600) nothing.
C4_PortRangeBuckets ==
    pc = "return" =>
        LET firing == SelectSeq(RulesOf(sg_item), InBucket)
            multiplier == IF Suppressing(config) /\ Unattached(sg_item) THEN 0 ELSE 1
            Yields(pair, scores) ==
                (RulesOf(sg_item) = <<CidrRule(PUBLIC_16, pair[1], pair[2], "ingress")>>
                 /\ multiplier = 1)
                => [i \in 1..Len(audit_issues) |-> audit_issues[i].score] = scores
        IN  /\ raised = {}
            /\ Len(audit_issues) = Len(firing)
            /\ \A i \in 1..Len(firing) :
                   audit_issues[i] =
                       [score |-> BucketSeverity(SizeOf(firing[i])) * multiplier,
                        issue |-> BucketTag(SizeOf(firing[i])),
                        notes |-> NotesFor(NameOf(firing[i]), firing[i])]
            /\ Yields(<<443, 3000>>, <<4>>)
            /\ Yields(<<443, 1200>>, <<3>>)
            /\ Yields(<<443, 700>>, <<1>>)
            /\ Yields(<<443, 600>>, <<>>)

C4_Witness ==
    /\ pc = "return"
    /\ config = ConfigOf("NONE")
    /\ RulesOf(sg_item) = <<CidrRule(PUBLIC_16, 0, 250, "ingress"),
                            CidrRule(PUBLIC_16, 0, 2500, "ingress")>>
    /\ Len(audit_issues) = 1
    /\ audit_issues[1].score = 3

\* ---- _check_inclusion_in_network_whitelist ----

ProbeBases ==
    { <<"1", "0", ".", "0", ".", "0", ".", "0">>,
      <<"1", "0", ".", "1", ".", "2", ".", "3">>,
      <<"8", ".", "8", ".", "8", ".", "8">> }

\* every mask length of every base, and the bases without a mask
ProbeCidrs ==
    { base \o <<"/">> \o IntToStr(mask) : base \in ProbeBases, mask \in 0..32 }
        \cup ProbeBases

WhitelistEntries ==
    { WL_TEN, WL_PUBLIC,
      [cidr |-> <<"1", "0", ".", "1", ".", "2", ".", "0", "/", "2", "4">>],
      [cidr |-> <<"1", "0", ".", "1", ".", "2", ".", "3", "/", "3", "2">>],
      [cidr |-> <<"8", ".", "8", ".", "8", ".", "8", "/", "3", "1">>],
      [cidr |-> ANY_CIDR] }

InitWhitelist ==
    InitCall({ConfigOf("NONE")}, SeqsUpTo(WhitelistEntries, MaxWhitelist),
             {NoItem}, ProbeCidrs)

CallCheckInclusion ==
    /\ pc = "call"
    /\ LET r == _check_inclusion_in_network_whitelist(network_whitelist, probe)
       IN  /\ retval' = r.val
           /\ raised' = IF r.raised THEN {"inclusion"} ELSE {}
    /\ pc' = "return"
    /\ UNCHANGED <<config, network_whitelist, batch_whitelist, sg_item, audit_issues,
                   probe, earlier>>

SpecWhitelist == InitWhitelist /\ [][CallCheckInclusion]_vars

\* bit j of an address, 1 the most significant
Bit(ip, j) == (ip[((j - 1) \div 8) + 1] \div (2 ^ (7 - ((j - 1) % 8)))) % 2

\* every address of inner is one of outer: outer's prefix is no longer than
\* inner's and the two addresses agree on it
RangeWithin(inner, outer) ==
    /\ outer.prefixlen <= inner.prefixlen
    /\ \A j \in 1..outer.prefixlen : Bit(inner.ip, j) = Bit(outer.ip, j)

\* C5: the whitelist test is true iff the range of the CIDR lies within (or
\* equals) the range of some entry of the loaded whitelist; it is false for
\* an empty whitelist and for a CIDR that only contains an entry; every mask
\* length from 0 to 32 is handled without an exception.
C5_WhitelistedIffContained ==
    pc = "return" =>
        /\ raised = {}
        /\ retval = (\E k \in 1..Len(network_whitelist) :
                        RangeWithin(IPNetwork(probe),
                                    IPNetwork(network_whitelist[k].cidr)))
        /\ network_whitelist = <<>> => retval = FALSE

C5_Witness ==
    /\ pc = "return"
    /\ retval = TRUE
    /\ Len(network_whitelist) = 2
    /\ IPNetwork(probe).prefixlen = 9
    /\ network_whitelist[2] = WL_TEN
    /\ network_whitelist[1] = WL_PUBLIC

(***************************************************************************)
(* Batches of audits with a memory of one earlier audit                    *)
(***************************************************************************)

BatchRules ==
    { CidrRule(PUBLIC_16, 443, 1200, "ingress"),
      CidrRule(TEN_NET, 22, 22, "ingress"),
      CidrRule(BAD_MASK, 22, 22, "ingress") }

BatchItems == ItemsOver(SeqsUpTo(BatchRules, 1), {"empty", "one"})

\* the audit that just ended is kept for comparison, or the one kept stays
Remember ==
    earlier' \in {earlier,
                  [item |-> sg_item, whitelist |-> batch_whitelist, config |-> config,
                   issues |-> audit_issues, raised |-> raised]}

\* the audit ends and may be remembered
FinishAndRemember == EndOfAudit /\ Remember

NextBatch ==
    \/ PrepForAudit
    \/ StartAudit(BatchItems)
    \/ Checks
    \/ FinishAndRemember

SpecBatch == Init /\ [][NextBatch]_vars

\* the audit that has just ended has the input of the remembered one
SameInputAsEarlier ==
    /\ pc = "done"
    /\ DOMAIN earlier # {}
    /\ earlier.item = sg_item
    /\ earlier.whitelist = batch_whitelist
    /\ earlier.config = config

\* C9: audits are history-independent within and across batches.  Once
\* prep_for_audit has run, the auditor's whitelist is the snapshot it fetched,
\* whatever was audited since; and an audit of the same item, whitelist
\* snapshot and reporting mode as an earlier audit ends with the same
\* findings in the same order, and the same exceptions.
C9_AuditsAreHistoryIndependent ==
    /\ pc # "new" => network_whitelist = batch_whitelist
    /\ SameInputAsEarlier =>
           (audit_issues = earlier.issues /\ raised = earlier.raised)

C9_Witness ==
    /\ SameInputAsEarlier
    /\ batch_whitelist # <<>>
    /\ Len(audit_issues) >= 2

====
